---- MODULE Spec2Model ----
(***************************************************************************)
(* Model of src/dust.py: analyze_digraphs(binary_data, log_scale,          *)
(* exclude_digraphs, vmax, min_threshold).                                 *)
(*                                                                         *)
(* One call of analyze_digraphs is a run of the state machine: Init draws  *)
(* the arguments, and each action is one statement block of the function,  *)
(* in program order (pc is the position in the function body).             *)
(*                                                                         *)
(* Conventions                                                             *)
(*  - a character is a one-character string; a Python str / numpy array of *)
(*    characters is a sequence of them;                                    *)
(*  - an optional argument is <<>> for None and <<v>> for the value v;     *)
(*  - a float is a fixed-point integer with FX units per 1.0: the value    *)
(*    of the IEEE-754 double, rounded down to a multiple of 1/FX;          *)
(*  - the Counter is the sequence of its items in insertion order.         *)
(***************************************************************************)
EXTENDS Integers, Sequences, FiniteSets, TLC

VARIABLES binary_data, log_scale, exclude_digraphs, vmax, min_threshold,
          pc, raised, hex_string, digraphs, digraph_counts, matrix,
          imshow_vmax, annotations

vars == <<binary_data, log_scale, exclude_digraphs, vmax, min_threshold,
          pc, raised, hex_string, digraphs, digraph_counts, matrix,
          imshow_vmax, annotations>>

args == <<binary_data, log_scale, exclude_digraphs, vmax, min_threshold>>

(***************************************************************************)
(* Bounds of the model.                                                    *)
(***************************************************************************)
MaxLen == 3

MaxThreshold == 2

MaxVmax == 1

(* The bytes the input is built from: 0x00, 0x0A, 0xAB. *)
Bytes == {0, 10, 171}

(* The digraphs the caller may list in exclude_digraphs. *)
ExcludeCandidates == {<<"0", "0">>, <<"A", "B">>}

(***************************************************************************)
(* Values.                                                                 *)
(***************************************************************************)
None == <<>>

Some(v) == <<v>>

(* Python truthiness of an optional number: None and 0 are false *)
TruthyNumber(opt) == opt # None /\ opt[1] # 0

(* Python truthiness of an optional collection: None and the empty
   collection are false *)
TruthyCollection(opt) == opt # None /\ opt[1] # {}

(* dtype=float: fixed-point units per 1.0 *)
FX == 1000000

ToFloat(n) == n * FX

(* int(x) of a non-negative float: truncation toward zero *)
PyInt(x) == x \div FX

(* np.log1p(c) for c = 1..16, as doubles rounded down to 1/FX *)
Log1pTable ==
  << 693147, 1098612, 1386294, 1609437, 1791759, 1945910, 2079441, 2197224,
     2302585, 2397895, 2484906, 2564949, 2639057, 2708050, 2772588, 2833213 >>

(* np.expm1(np.log1p(c)) for c = 1..16, as doubles rounded down to 1/FX:
   the double is 1.9999999999999996 for c = 2, 3.9999999999999996 for c = 4,
   6.999999999999998 for c = 7 and 14.999999999999998 for c = 15. *)
Expm1Table ==
  << 1000000, 1999999, 3000000, 3999999, 5000000, 6000000, 6999999, 8000000,
     9000000, 10000000, 11000000, 12000000, 13000000, 14000000, 14999999,
     16000000 >>

(* np.log1p of a float holding a whole count *)
Log1p(x) == Log1pTable[PyInt(x)]

(* np.expm1 of a float that np.log1p produced *)
Expm1(v) == Expm1Table[CHOOSE c \in 1..Len(Log1pTable) : Log1pTable[c] = v]

(***************************************************************************)
(* Line 18: hex_string = ''.join(f'{b:02X}' for b in binary_data)          *)
(***************************************************************************)
UpperDigits ==
  << "0", "1", "2", "3", "4", "5", "6", "7",
     "8", "9", "A", "B", "C", "D", "E", "F" >>

LowerDigits ==
  << "0", "1", "2", "3", "4", "5", "6", "7",
     "8", "9", "a", "b", "c", "d", "e", "f" >>

RECURSIVE DigitsBase16(_, _)
(* the digits of n in base 16, most significant first, no padding *)
DigitsBase16(n, alphabet) ==
  IF n < 16 THEN << alphabet[n + 1] >>
  ELSE DigitsBase16(n \div 16, alphabet) \o << alphabet[(n % 16) + 1] >>

RECURSIVE ZeroPad(_, _)
(* pad on the left with '0' up to the minimum width *)
ZeroPad(s, width) ==
  IF Len(s) >= width THEN s ELSE ZeroPad(<< "0" >> \o s, width)

(* f'{b:02x}': lower-case digits *)
Format02x(b) == ZeroPad(DigitsBase16(b, LowerDigits), 2)

(* f'{b:02X}' *)
Format02X(b) == ZeroPad(DigitsBase16(b, UpperDigits), 2)

RECURSIVE Join(_)
(* ''.join(parts) *)
Join(parts) ==
  IF parts = <<>> THEN <<>> ELSE Head(parts) \o Join(Tail(parts))

HexString(data) == Join([k \in 1..Len(data) |-> Format02X(data[k])])

(***************************************************************************)
(* Lines 21-22: np.lib.stride_tricks.sliding_window_view(hex_array, 2)     *)
(***************************************************************************)
(* the windows at steps of two characters: one per byte *)
SlidingWindowStep2(arr, w) ==
  [k \in 1..(Len(arr) \div w) |-> SubSeq(arr, w * (k - 1) + 1, w * k)]

(* numpy raises ValueError when the window is longer than the array *)
WindowTooLarge(arr, w) == Len(arr) < w

(* every window of length w, at step 1 *)
SlidingWindowView(arr, w) ==
  [k \in 1..(Len(arr) - w + 1) |-> SubSeq(arr, k, k + w - 1)]

(***************************************************************************)
(* Line 25: digraph_counts = Counter(map(tuple, digraphs))                 *)
(***************************************************************************)
Keys(counter) == {counter[k].key : k \in 1..Len(counter)}

(* counter[key]; a Counter answers 0 for a key it does not hold *)
Lookup(counter, key) ==
  IF key \in Keys(counter)
  THEN LET k == CHOOSE k \in 1..Len(counter) : counter[k].key = key
       IN counter[k].count
  ELSE 0

(* a Counter that only records which keys occurred *)
CounterAddOnce(counter, key) ==
  IF key \in Keys(counter) THEN counter
  ELSE Append(counter, [key |-> key, count |-> 1])

(* counter[key] += 1 *)
CounterAdd(counter, key) ==
  IF key \in Keys(counter)
  THEN [k \in 1..Len(counter) |->
          IF counter[k].key = key
          THEN [counter[k] EXCEPT !.count = @ + 1]
          ELSE counter[k]]
  ELSE Append(counter, [key |-> key, count |-> 1])

RECURSIVE CounterOf(_, _)
(* Counter(iterable): the items are added from left to right *)
CounterOf(counter, items) ==
  IF items = <<>> THEN counter
  ELSE CounterOf(CounterAdd(counter, Head(items)), Tail(items))

(***************************************************************************)
(* Lines 28-39: the 16x16 matrix and the loop that fills it                *)
(***************************************************************************)
hex_digits == UpperDigits

Idx == 0..15

(* np.zeros((16, 16), dtype=float) *)
Zeros == [i \in Idx |-> [j \in Idx |-> 0]]

(* str.index raises ValueError for a character the string does not hold *)
IndexFails(ch) == \A k \in 1..Len(hex_digits) : hex_digits[k] # ch

(* hex_digits.index(ch) *)
Index(ch) == (CHOOSE k \in 1..Len(hex_digits) : hex_digits[k] = ch) - 1

(* line 33 *)
IsExcluded(key, exclude) == TruthyCollection(exclude) /\ key \in exclude[1]

(* the threshold test with <= for <: a count equal to the threshold is
   dropped *)
BelowThresholdInclusive(count, threshold) ==
  TruthyNumber(threshold) /\ count <= threshold[1]

(* line 35 *)
BelowThreshold(count, threshold) ==
  TruthyNumber(threshold) /\ count < threshold[1]

(* a loop body that also deletes the digraphs it skips from the Counter *)
FillItemDeleting(st, item, exclude, threshold) ==
  IF st.raised # "none" THEN st
  ELSE IF IsExcluded(item.key, exclude) \/ BelowThreshold(item.count, threshold)
  THEN [st EXCEPT !.counts = SelectSeq(@, LAMBDA it : it.key # item.key)]
  ELSE [st EXCEPT !.matrix[Index(item.key[1])][Index(item.key[2])] =
                     ToFloat(item.count)]

(* one iteration of the loop of lines 32-39; st holds the matrix, the
   Counter (which the loop only reads) and the exception raised, if any *)
FillItem(st, item, exclude, threshold) ==
  IF st.raised # "none" THEN st
  ELSE IF IsExcluded(item.key, exclude) THEN st
  ELSE IF BelowThreshold(item.count, threshold) THEN st
  ELSE IF IndexFails(item.key[1]) \/ IndexFails(item.key[2])
  THEN [st EXCEPT !.raised = "ValueError:index"]
  ELSE [st EXCEPT !.matrix[Index(item.key[1])][Index(item.key[2])] =
                     ToFloat(item.count)]

RECURSIVE FillLoop(_, _, _, _)
(* for (first, second), count in digraph_counts.items(): ... *)
FillLoop(st, items, exclude, threshold) ==
  IF items = <<>> THEN st
  ELSE FillLoop(FillItem(st, Head(items), exclude, threshold),
                Tail(items), exclude, threshold)

(***************************************************************************)
(* Lines 42-44: log scaling                                                *)
(***************************************************************************)
(* matrix.max() *)
MatrixMax(m) ==
  CHOOSE v \in {m[i][j] : i \in Idx, j \in Idx} :
    \A i \in Idx, j \in Idx : m[i][j] <= v

(* np.log(c): ln of the count itself, which is 0 for a count of 1 *)
LogScaleLn(m, ls) ==
  IF ls /\ MatrixMax(m) > 0
  THEN [i \in Idx |-> [j \in Idx |->
          IF m[i][j] > ToFloat(1) THEN Log1p(m[i][j] - ToFloat(1)) ELSE 0]]
  ELSE m

(* the matrix with every cell cut at vmax *)
LogScaleClipped(m, ls) ==
  LET c == [i \in Idx |-> [j \in Idx |->
              IF vmax # None /\ m[i][j] > ToFloat(vmax[1])
              THEN ToFloat(vmax[1]) ELSE m[i][j]]]
  IN IF ls /\ MatrixMax(c) > 0
     THEN [i \in Idx |-> [j \in Idx |->
             IF c[i][j] > 0 THEN Log1p(c[i][j]) ELSE 0]]
     ELSE c

(* if log_scale and matrix.max() > 0:
       matrix = np.where(matrix > 0, np.log1p(matrix), 0) *)
LogScale(m, ls) ==
  IF ls /\ MatrixMax(m) > 0
  THEN [i \in Idx |-> [j \in Idx |->
          IF m[i][j] > 0 THEN Log1p(m[i][j]) ELSE 0]]
  ELSE m

(***************************************************************************)
(* Lines 50 and 70-78: the rendering                                       *)
(***************************************************************************)
(* original_value of line 74 *)
OriginalValue(v, ls) == IF ls THEN Expm1(v) ELSE v

(* the plt.text calls: one per non-zero cell, with the integer shown and
   the text colour; the figure, the axes, the colour bar and the title hold
   no value that is returned and are left out *)
Annotations(m, ls) ==
  { [row |-> i, col |-> j,
     text |-> PyInt(OriginalValue(m[i][j], ls)),
     color |-> IF 2 * m[i][j] > MatrixMax(m) THEN "white" ELSE "black"] :
    <<i, j>> \in {c \in Idx \X Idx : m[c[1]][c[2]] > 0} }

(***************************************************************************)
(* The arguments of a call.                                                *)
(***************************************************************************)
RECURSIVE SeqsUpTo(_, _)
SeqsUpTo(S, n) ==
  IF n = 0 THEN {<<>>}
  ELSE LET shorter == SeqsUpTo(S, n - 1)
       IN shorter \cup {Append(s, b) : s \in {t \in shorter : Len(t) = n - 1},
                                       b \in S}

Optional(S) == {None} \cup {Some(v) : v \in S}

Init ==
  /\ binary_data \in SeqsUpTo(Bytes, MaxLen)
  /\ log_scale \in BOOLEAN
  /\ exclude_digraphs \in Optional(SUBSET ExcludeCandidates)
  /\ vmax \in Optional(1..MaxVmax)
  /\ min_threshold \in Optional((-1)..MaxThreshold)
  /\ pc = "encode"
  /\ raised = "none"
  /\ hex_string = <<>>
  /\ digraphs = <<>>
  /\ digraph_counts = <<>>
  /\ matrix = <<>>
  /\ imshow_vmax = None
  /\ annotations = {}

(* line 18 *)
Encode ==
  /\ pc = "encode"
  /\ hex_string' = HexString(binary_data)
  /\ pc' = "window"
  /\ UNCHANGED <<args, raised, digraphs, digraph_counts, matrix,
                 imshow_vmax, annotations>>

(* lines 21-22 *)
Window ==
  /\ pc = "window"
  /\ IF WindowTooLarge(hex_string, 2)
     THEN /\ raised' = "ValueError:window"
          /\ pc' = "raised"
          /\ UNCHANGED digraphs
     ELSE /\ digraphs' = SlidingWindowView(hex_string, 2)
          /\ pc' = "count"
          /\ UNCHANGED raised
  /\ UNCHANGED <<args, hex_string, digraph_counts, matrix,
                 imshow_vmax, annotations>>

(* line 25 *)
Count ==
  /\ pc = "count"
  /\ digraph_counts' = CounterOf(<<>>, digraphs)
  /\ pc' = "fill"
  /\ UNCHANGED <<args, raised, hex_string, digraphs, matrix,
                 imshow_vmax, annotations>>

(* lines 28-39 *)
Fill ==
  /\ pc = "fill"
  /\ LET st == FillLoop([matrix |-> Zeros, counts |-> digraph_counts,
                         raised |-> "none"],
                        digraph_counts, exclude_digraphs, min_threshold)
     IN /\ matrix' = st.matrix
        /\ digraph_counts' = st.counts
        /\ raised' = st.raised
        /\ pc' = IF st.raised = "none" THEN "scale" ELSE "raised"
  /\ UNCHANGED <<args, hex_string, digraphs, imshow_vmax, annotations>>

(* lines 42-44 *)
Scale ==
  /\ pc = "scale"
  /\ matrix' = LogScale(matrix, log_scale)
  /\ pc' = "render"
  /\ UNCHANGED <<args, raised, hex_string, digraphs, digraph_counts,
                 imshow_vmax, annotations>>

(* lines 47-78 *)
Render ==
  /\ pc = "render"
  /\ imshow_vmax' = vmax
  /\ annotations' = Annotations(matrix, log_scale)
  /\ pc' = "return"
  /\ UNCHANGED <<args, raised, hex_string, digraphs, digraph_counts, matrix>>

(* line 80 *)
Return ==
  /\ pc = "return"
  /\ pc' = "done"
  /\ UNCHANGED <<args, raised, hex_string, digraphs, digraph_counts, matrix,
                 imshow_vmax, annotations>>

Next == Encode \/ Window \/ Count \/ Fill \/ Scale \/ Render \/ Return

Spec == Init /\ [][Next]_vars

(***************************************************************************)
(* What the claims are stated against: the hex alphabet and the digraph    *)
(* occurrences of a byte sequence, defined by position.                    *)
(***************************************************************************)
HexAlphabet ==
  << "0", "1", "2", "3", "4", "5", "6", "7",
     "8", "9", "A", "B", "C", "D", "E", "F" >>

HexChars == {HexAlphabet[n] : n \in 1..16}

(* the hex digit whose index in '0123456789ABCDEF' is n *)
RefChar(n) == HexAlphabet[n + 1]

(* the digraph of the hex digits of indices i and j *)
RefKey(i, j) == << RefChar(i), RefChar(j) >>

(* the nibble at position p (from 0) of the hex string of data: the high
   nibble of byte p/2 when p is even, its low nibble when p is odd *)
RefNibble(data, p) ==
  IF p % 2 = 0 THEN data[(p \div 2) + 1] \div 16 ELSE data[(p \div 2) + 1] % 16

(* the positions p in 0..2N-2 where digit i stands at p and digit j at p+1 *)
RefPositions(data, i, j) ==
  {p \in 0..(2 * Len(data) - 2) :
     RefNibble(data, p) = i /\ RefNibble(data, p + 1) = j}

RefCount(data, i, j) == Cardinality(RefPositions(data, i, j))

(* the pairs of digit indices that stand next to each other somewhere in
   the hex string of data: the digraphs whose count is not 0 *)
RefOccurring(data) ==
  {<<RefNibble(data, p), RefNibble(data, p + 1)>> :
     p \in 0..(2 * Len(data) - 2)}

(* the pairs of digit indices that never occur in the hex string of data *)
RefAbsent(data) == (Idx \X Idx) \ RefOccurring(data)

(* a digraph is shown in the grid unless it is excluded or its count is
   strictly below the threshold *)
RefKept(data, i, j, exclude, threshold) ==
  /\ RefCount(data, i, j) > 0
  /\ ~(exclude # None /\ RefKey(i, j) \in exclude[1])
  /\ ~(threshold # None /\ RefCount(data, i, j) < threshold[1])

(* the count shown in the cell of digits i, j before scaling *)
RefCell(data, i, j, exclude, threshold) ==
  IF RefKept(data, i, j, exclude, threshold) THEN RefCount(data, i, j) ELSE 0

Returned == pc = "done"

Finished == pc \in {"done", "raised"}

RECURSIVE SumTo(_, _)
(* f[0] + ... + f[n], for n >= -1 *)
SumTo(f, n) == IF n < 0 THEN 0 ELSE f[n] + SumTo(f, n - 1)

(* the sum of the 256 cells of m: the sum of the sums of its rows *)
SumCells(m) == SumTo([i \in Idx |-> SumTo(m[i], 15)], 15)

(***************************************************************************)
(* C1: analyze_digraphs called with an empty byte sequence, under any      *)
(* configuration, completes without raising and returns a 16x16 grid of    *)
(* zeros together with an empty count mapping.                             *)
(***************************************************************************)
C1_EmptyInputReturnsZeros ==
  (binary_data = <<>> /\ Finished) =>
     /\ raised = "none"
     /\ matrix = Zeros
     /\ digraph_counts = <<>>

(***************************************************************************)
(* C2: for a byte sequence of length N >= 1 and every pair of hex digits   *)
(* (x, y), the returned mapping's count of (x, y) is the number of         *)
(* positions p in 0..2N-2 of the hex string (high nibble, then low nibble, *)
(* upper case) with x at p and y at p+1; a pair that never occurs is       *)
(* absent from the mapping, and no pair is held twice.                     *)
(***************************************************************************)
C2_CountsAreWindowOccurrences ==
  (Returned /\ Len(binary_data) >= 1) =>
     /\ \A p \in 0..(2 * Len(binary_data) - 2) :
           LET i == RefNibble(binary_data, p)
               j == RefNibble(binary_data, p + 1)
           IN /\ RefKey(i, j) \in Keys(digraph_counts)
              /\ Lookup(digraph_counts, RefKey(i, j)) =
                    RefCount(binary_data, i, j)
     /\ \A c \in RefAbsent(binary_data) :
           RefKey(c[1], c[2]) \notin Keys(digraph_counts)
     /\ Cardinality(Keys(digraph_counts)) = Len(digraph_counts)

(* the bytes 0A AB give "0AAB": the cross-byte digraph (A, A) is counted
   once, next to the bytes' own digraphs (0, A) and (A, B) *)
C2_Witness ==
  /\ Returned
  /\ binary_data = <<10, 171>>
  /\ Lookup(digraph_counts, <<"A", "A">>) = 1
  /\ Lookup(digraph_counts, <<"0", "A">>) = 1
  /\ Lookup(digraph_counts, <<"A", "B">>) = 1
  /\ Len(digraph_counts) = 3

(***************************************************************************)
(* C3: for N > 0 bytes, with log_scale false, no excluded digraphs and no  *)
(* threshold, the 256 cells of the returned grid sum to 2N - 1.            *)
(***************************************************************************)
C3_GridSumIsWindowCount ==
  (/\ Returned
   /\ Len(binary_data) > 0
   /\ ~log_scale
   /\ exclude_digraphs \in {None, Some({})}
   /\ min_threshold = None)
  => SumCells(matrix) = ToFloat(2 * Len(binary_data) - 1)

C3_Witness ==
  /\ Returned
  /\ Len(binary_data) = MaxLen
  /\ ~log_scale
  /\ exclude_digraphs = None
  /\ min_threshold = None
  /\ SumCells(matrix) = ToFloat(2 * MaxLen - 1)
  /\ \E i \in Idx, j \in Idx : matrix[i][j] >= ToFloat(2)

(***************************************************************************)
(* C4: with log_scale false, for every exclusion set and threshold, the    *)
(* cell at row index(x), column index(y) is the mapping's count of (x, y)  *)
(* when (x, y) is in the mapping, is not excluded and its count is not     *)
(* strictly below min_threshold, and 0 otherwise; a count equal to the     *)
(* threshold is kept.                                                      *)
(***************************************************************************)
C4_CellIsCountOrZero ==
  (Returned /\ ~log_scale) =>
     \A i \in Idx, j \in Idx :
        LET key == RefKey(i, j)
            count == Lookup(digraph_counts, key)
            shown == /\ key \in Keys(digraph_counts)
                     /\ ~(exclude_digraphs # None /\ key \in exclude_digraphs[1])
                     /\ ~(min_threshold # None /\ count < min_threshold[1])
        IN matrix[i][j] = IF shown THEN ToFloat(count) ELSE 0

(* AB AB 00 gives "ABAB00": (A, B) has count 2, which equals the threshold
   and is kept in cell [10][11], while (B, A), of count 1, is left at 0 and
   (0, 0) is excluded *)
C4_Witness ==
  /\ Returned
  /\ ~log_scale
  /\ binary_data = <<171, 171, 0>>
  /\ min_threshold = Some(2)
  /\ exclude_digraphs = Some({<<"0", "0">>})
  /\ matrix[10][11] = ToFloat(2)
  /\ Lookup(digraph_counts, <<"B", "A">>) = 1
  /\ matrix[11][10] = 0
  /\ Lookup(digraph_counts, <<"0", "0">>) = 1
  /\ matrix[0][0] = 0

(***************************************************************************)
(* C5: the returned count mapping depends only on the byte sequence:       *)
(* whatever log_scale, exclude_digraphs, vmax and min_threshold are, it    *)
(* holds exactly the digraphs that occur in the input, each with its raw   *)
(* count, the excluded digraphs and those below the threshold included.    *)
(***************************************************************************)
C5_CountsIgnoreConfiguration ==
  Returned =>
     LET occurring == RefOccurring(binary_data)
     IN /\ Keys(digraph_counts) = {RefKey(c[1], c[2]) : c \in occurring}
        /\ \A c \in occurring :
              Lookup(digraph_counts, RefKey(c[1], c[2])) =
                 RefCount(binary_data, c[1], c[2])

(* the bytes 00 00 0A with (0, 0) excluded and a threshold of 2: both cells
   are 0, the mapping still holds (0, 0) -> 4 and (0, A) -> 1 *)
C5_Witness ==
  /\ Returned
  /\ binary_data = <<0, 0, 10>>
  /\ exclude_digraphs = Some({<<"0", "0">>})
  /\ min_threshold = Some(2)
  /\ matrix = Zeros
  /\ Lookup(digraph_counts, <<"0", "0">>) = 4
  /\ Lookup(digraph_counts, <<"0", "A">>) = 1

(***************************************************************************)
(* C6: with log_scale true, the integer shown in the annotation of every   *)
(* non-zero cell is the cell's count c before scaling.                     *)
(***************************************************************************)
C6_AnnotationShowsCount ==
  (Returned /\ log_scale) =>
     \A i \in Idx, j \in Idx :
        LET c == RefCell(binary_data, i, j, exclude_digraphs, min_threshold)
        IN c > 0 =>
             \E a \in annotations : a.row = i /\ a.col = j /\ a.text = c

(***************************************************************************)
(* C7: vmax does not affect the returned values: the grid is determined by *)
(* the byte sequence, log_scale, exclude_digraphs and min_threshold, the   *)
(* count mapping by the byte sequence, and vmax only reaches the colour    *)
(* scale of the rendering.                                                 *)
(***************************************************************************)
C7_VmaxOnlyReachesRendering ==
  Returned =>
     /\ imshow_vmax = vmax
     /\ \A d \in RefOccurring(binary_data) :
           LET c == RefCell(binary_data, d[1], d[2],
                            exclude_digraphs, min_threshold)
           IN /\ matrix[d[1]][d[2]] = IF log_scale /\ c > 0 THEN Log1pTable[c]
                                      ELSE ToFloat(c)
              /\ Lookup(digraph_counts, RefKey(d[1], d[2])) =
                    RefCount(binary_data, d[1], d[2])
     /\ \A d \in RefAbsent(binary_data) :
           /\ matrix[d[1]][d[2]] = 0
           /\ Lookup(digraph_counts, RefKey(d[1], d[2])) = 0

(* 00 00 with vmax 1: the cell of (0, 0) holds 3, above vmax *)
C7_Witness ==
  /\ Returned
  /\ binary_data = <<0, 0>>
  /\ vmax = Some(1)
  /\ imshow_vmax = Some(1)
  /\ ~log_scale
  /\ exclude_digraphs = None
  /\ min_threshold = None
  /\ matrix[0][0] = ToFloat(3)

(***************************************************************************)
(* C8: log scaling preserves the shape of the grid: the grid returned with *)
(* log_scale true has a zero exactly where the unscaled grid has one,      *)
(* every positive cell v is replaced by ln(1 + v), the order between any   *)
(* two cells is unchanged, and an all-zero grid is returned unchanged.     *)
(***************************************************************************)
C8_LogScalePreservesShape ==
  (Returned /\ log_scale) =>
     LET unscaled == [c \in RefOccurring(binary_data) |->
                        ToFloat(RefCell(binary_data, c[1], c[2],
                                        exclude_digraphs, min_threshold))]
         positive == {c \in DOMAIN unscaled : unscaled[c] > 0}
     IN /\ \A c \in DOMAIN unscaled :
              /\ (matrix[c[1]][c[2]] = 0) <=> (unscaled[c] = 0)
              /\ unscaled[c] > 0 => matrix[c[1]][c[2]] = Log1p(unscaled[c])
        /\ \A c \in RefAbsent(binary_data) : matrix[c[1]][c[2]] = 0
        /\ \A c \in positive, d \in positive :
              (unscaled[c] < unscaled[d]) <=>
                 (matrix[c[1]][c[2]] < matrix[d[1]][d[2]])
        /\ positive = {} => matrix = Zeros

(* 00 00 0A gives "00000A": (0, 0) of count 4 and (0, A) of count 1 are
   both shown, scaled, in their order *)
C8_Witness ==
  /\ Returned
  /\ log_scale
  /\ binary_data = <<0, 0, 10>>
  /\ exclude_digraphs = None
  /\ min_threshold = None
  /\ matrix[0][0] = Log1pTable[4]
  /\ matrix[0][10] = Log1pTable[1]
  /\ matrix[0][10] < matrix[0][0]
  /\ matrix[10][0] = 0

(***************************************************************************)
(* C9: a min_threshold that is absent, 0 or negative filters nothing: for  *)
(* every byte sequence and exclusion set the grid equals the grid of a     *)
(* call without threshold, and no error is raised.                         *)
(***************************************************************************)
C9_NonPositiveThresholdNoFilterNoError ==
  (Finished /\ (min_threshold = None \/ min_threshold[1] <= 0)) =>
     /\ raised = "none"
     /\ \A i \in Idx, j \in Idx :
           LET c == RefCell(binary_data, i, j, exclude_digraphs, None)
           IN matrix[i][j] = IF log_scale /\ c > 0 THEN Log1pTable[c]
                             ELSE ToFloat(c)

(***************************************************************************)
(* C10: every key of the count mapping is a pair of characters of          *)
(* '0123456789ABCDEF' with a count of at least 1, the mapping holds at     *)
(* most 256 keys and at most 2N - 1 for N bytes, and the index lookup of   *)
(* the fill loop never fails.                                              *)
(***************************************************************************)
C10_KeysAreHexPairs ==
  /\ raised # "ValueError:index"
  /\ pc \in {"fill", "scale", "render", "return", "done"} =>
        /\ \A k \in 1..Len(digraph_counts) :
              /\ digraph_counts[k].key \in HexChars \X HexChars
              /\ digraph_counts[k].count >= 1
        /\ Cardinality(Keys(digraph_counts)) <= 256
        /\ Cardinality(Keys(digraph_counts)) <= 2 * Len(binary_data) - 1

(* AB 0A 00 gives "AB0A00": five windows, five distinct digraphs, all put
   into the grid *)
C10_Witness ==
  /\ Returned
  /\ binary_data = <<171, 10, 0>>
  /\ Cardinality(Keys(digraph_counts)) = 5
  /\ ~log_scale
  /\ exclude_digraphs = None
  /\ min_threshold = None
  /\ Cardinality({c \in Idx \X Idx : matrix[c[1]][c[2]] > 0}) = 5

====
